---- MODULE Spec2Model ----
(***************************************************************************)
(* A model of the movie recommendation service: the catalog loader         *)
(* (model/loader.py), the request handlers of api/routes.py (recommend,    *)
(* search, history), the search-history table (database/history.py) and    *)
(* the application startup hook (backend/app.py).                          *)
(*                                                                         *)
(* Strings are sequences of one-character strings.  Row positions are      *)
(* 1-based here and 0-based in the Python code.                            *)
(***************************************************************************)
EXTENDS Integers, Sequences, FiniteSets, TLC

VARIABLES
    moviesPkl,     \* models/movies_df.pkl on disk: [present, data: the entries]
    matrixPkl,     \* models/tfidf_matrix.pkl on disk: [present, data: the rows]
    proc,          \* the server process: "starting", "serving" or "failed"
    movies,        \* loader.movies, the loaded catalog
    tfidf_matrix,  \* loader.tfidf_matrix, the loaded feature matrix
    history,       \* rows of the search_history table, in insertion order
    openConns,     \* store connections opened and not closed
    inflight,      \* searches past their history write, not yet enriched
    resp           \* the outcome of the last operation that ran

vars == <<moviesPkl, matrixPkl, proc, movies, tfidf_matrix, history, openConns,
          inflight, resp>>

----------------------------------------------------------------------------
(* Bounds of the model. *)

MaxCatalog == 2      \* catalog entries in ResolveSpec
MaxHistory == 2      \* rows the search_history table can hold in the model
MaxOpen == 2         \* connections that can be left open at once in the model
MaxInFlight == 1     \* searches that can be between their two store steps at once

(* Program constants. *)

ScoreCutoff == 50    \* fuzzy_find's score_cutoff default
LimitMin == 1        \* Query(50, ge=1, le=500)
LimitMax == 500

None == <<"None">>       \* Python's None / SQL NULL
True == <<"True">>       \* Python's True, under a key that may be absent
Absent == <<"absent">>   \* a key the response dict does not carry

----------------------------------------------------------------------------
(* Small helpers. *)

Max2(a, b) == IF a >= b THEN a ELSE b
Min2(a, b) == IF a <= b THEN a ELSE b

Reverse(s) == [i \in 1..Len(s) |-> s[Len(s) + 1 - i]]

(* Python's s[start:] for any integer start, negative ones counted from the end. *)
PySliceFrom(s, start) ==
    LET len == Len(s)
        st  == IF start < 0 THEN Max2(len + start, 0) ELSE Min2(start, len)
    IN  SubSeq(s, st + 1, len)

(* Python's s[:stop] for stop >= 0. *)
PySliceTo(s, stop) == SubSeq(s, 1, Min2(stop, Len(s)))

Perms(n) == {p \in [1..n -> 1..n] : \A i, j \in 1..n : i # j => p[i] # p[j]}

----------------------------------------------------------------------------
(* Strings. *)

LowerChar(c) == IF c = "A" THEN "a" ELSE IF c = "B" THEN "b" ELSE c

(* str.lower() *)
Lower(s) == [i \in 1..Len(s) |-> LowerChar(s[i])]

(* re.compile(pat) raises re.error: over the model's alphabet the only such  *)
(* pattern is one with an unterminated group.                                *)
ReCompileFails(pat) == \E i \in 1..Len(pat) : pat[i] = "("

(* The pattern matches s at position k, ignoring case; "." matches any character. *)
ReMatchAt(pat, s, k) ==
    /\ k + Len(pat) - 1 <= Len(s)
    /\ \A i \in 1..Len(pat) : pat[i] = "." \/ LowerChar(pat[i]) = LowerChar(s[k + i - 1])

(* re.search(pat, s, re.IGNORECASE) finds a match. *)
ReSearch(pat, s) == \E k \in 1..(Len(s) + 1) : ReMatchAt(pat, s, k)

(* Plain case-insensitive substring containment. *)
Contains(s, sub) ==
    \E k \in 1..(Len(s) + 1) :
        /\ k + Len(sub) - 1 <= Len(s)
        /\ \A i \in 1..Len(sub) : LowerChar(sub[i]) = LowerChar(s[k + i - 1])

----------------------------------------------------------------------------
(* Input domains. *)

Titles == {<<"A", "b">>, <<"a", "b">>, <<"b">>}
Votes == {100, 5000}
Entries == [primaryTitle : Titles, numVotes : Votes]
Rows == {<<1, 0>>, <<1, 1>>}

Queries == {<<"a", "B">>, <<"b">>, <<"a">>, <<".">>, <<"(">>, <<"c">>, <<>>}
SysTitles == {<<"b">>}
SysQueries == {<<"b">>, <<"c">>}

ScoreVals == {ScoreCutoff - 1, ScoreCutoff, ScoreCutoff + 1}

SeqsUpTo(S, lo, hi) == UNION {[1..k -> S] : k \in lo..hi}

----------------------------------------------------------------------------
(* Title resolution: routes.py, the first lines of recommend and search_movie. *)

(* movies[movies["primaryTitle"].str.lower() == t.lower()], as row positions *)
ExactMatches(t) == {i \in 1..Len(movies) : Lower(movies[i].primaryTitle) = Lower(t)}

(* movies[movies["primaryTitle"].str.contains(t, case=False, na=False)]:     *)
(* str.contains takes t as a regular expression.                            *)
ContainsMatches(t) == {i \in 1..Len(movies) : ReSearch(t, movies[i].primaryTitle)}

(* fuzz.WRatio(q, t): the library's score, an input sc of the model; it is 0 *)
(* when either string is empty.                                             *)
WRatio(q, t, sc) == IF q = <<>> \/ t = <<>> THEN 0 ELSE sc[t]

(* process.extractOne(title, _all_titles, scorer=WRatio, score_cutoff=cutoff): *)
(* the first row with the highest score, or None when that score is below      *)
(* the cutoff; fuzzy_find returns its title.                                   *)
fuzzy_find(title, sc, score_cutoff) ==
    LET n    == Len(movies)
        s(i) == WRatio(title, movies[i].primaryTitle, sc)
        best == {i \in 1..n : (\A j \in 1..n : s(j) <= s(i))
                              /\ (\A j \in 1..(i - 1) : s(j) < s(i))}
    IN  IF best = {} THEN None
        ELSE LET i == CHOOSE i \in best : TRUE
             IN  IF s(i) >= score_cutoff THEN movies[i].primaryTitle ELSE None

(* The three stages.  raised: str.contains raised re.error. *)
MatchStages(title, sc) ==
    LET exact == ExactMatches(title)
    IN  IF exact # {}
        THEN [raised |-> FALSE, matches |-> exact, stage |-> "exact",
              fuzzy_used |-> FALSE, fuzzy_match |-> None]
        ELSE IF ReCompileFails(title)
        THEN [raised |-> TRUE, matches |-> {}, stage |-> "error",
              fuzzy_used |-> FALSE, fuzzy_match |-> None]
        ELSE LET sub == ContainsMatches(title)
             IN  IF sub # {}
                 THEN [raised |-> FALSE, matches |-> sub, stage |-> "substring",
                       fuzzy_used |-> FALSE, fuzzy_match |-> None]
                 ELSE LET fm == fuzzy_find(title, sc, ScoreCutoff)
                      IN  IF fm # None /\ fm # <<>>
                          THEN [raised |-> FALSE, matches |-> ExactMatches(fm),
                                stage |-> "fuzzy", fuzzy_used |-> TRUE, fuzzy_match |-> fm]
                          ELSE [raised |-> FALSE, matches |-> {}, stage |-> "none",
                                fuzzy_used |-> FALSE, fuzzy_match |-> None]

(* The scores the library can give when title is scored against the catalog: *)
(* fuzzy_find is called only when the first two stages found nothing.         *)
NoScores == [t \in {} |-> 0]
Scorers(title) ==
    IF ExactMatches(title) = {} /\ ~ReCompileFails(title) /\ ContainsMatches(title) = {}
    THEN [{movies[i].primaryTitle : i \in 1..Len(movies)} -> ScoreVals]
    ELSE {NoScores}

(* A resolver that takes the first candidate in catalog order. *)
TopVotedFirst(matches) == {i \in matches : \A j \in matches : i <= j}

(* matches.sort_values("numVotes", ascending=False), first row: the rows that *)
(* can come first, those with the highest vote count.                         *)
TopVoted(matches) ==
    {i \in matches : \A j \in matches : movies[j].numVotes <= movies[i].numVotes}

----------------------------------------------------------------------------
(* Similarity ranking: routes.py, recommend.  A score is kept as the exact   *)
(* fraction <<numerator, denominator>> of the squared cosine, which orders   *)
(* non-negative vectors as the cosine does; the sentinel is -1.              *)

Dot(a, b) == a[1] * b[1] + a[2] * b[2]

Sentinel == <<-1, 1>>

(* cosine_similarity of two rows: 0 when either row is all zero. *)
Cosine(a, b) ==
    IF Dot(a, a) = 0 \/ Dot(b, b) = 0 THEN <<0, 1>>
    ELSE <<Dot(a, b) * Dot(a, b), Dot(a, a) * Dot(b, b)>>

ScoreLE(x, y) == x[1] * y[2] <= y[1] * x[2]

(* cosine_similarity(tfidf_matrix[idx], tfidf_matrix).flatten(), then       *)
(* sim_scores[idx] = -1                                                      *)
SimScores(idx) ==
    [i \in 1..Len(tfidf_matrix) |->
        IF i = idx THEN Sentinel ELSE Cosine(tfidf_matrix[idx], tfidf_matrix[i])]

(* sim_scores.argsort(): the orders an ascending sort can give; the order of *)
(* equal scores is the sort's choice.                                        *)
ArgSorts(scores) ==
    {p \in Perms(Len(scores)) :
        \A i \in 1..(Len(scores) - 1) : ScoreLE(scores[p[i]], scores[p[i + 1]])}

(* sim_scores.argsort()[-n:][::-1] *)
TopIndices(p, n) == Reverse(PySliceFrom(p, 0 - n))

----------------------------------------------------------------------------
(* The relational store: database/history.py and the enrichment queries of   *)
(* search_movie.  A store state is [history, openConns, log]: log lists the   *)
(* steps that have run on it, in order.  A plan names the step of an          *)
(* operation that raises: "connect" (get_connection raises, no connection     *)
(* exists), a later step (the connection is open), or "ok".                   *)

Store == [history |-> history, openConns |-> openConns, log |-> <<>>]

ConnPlans == {"ok", "connect", "execute"}
EnrichPlans == {"ok", "connect", "meta", "cast"}

(* get_connection(): psycopg2.connect *)
get_connection(st) == [st EXCEPT !.openConns = @ + 1]

(* conn.close() *)
close(st) == [st EXCEPT !.openConns = @ - 1]

Step(st, name) == [st EXCEPT !.log = Append(@, name)]

(* CURRENT_TIMESTAMP of a new row: not before any stored one. *)
LastStamp(h) == IF Len(h) = 0 THEN 0 ELSE h[Len(h)].searched_at
Stamps(h) == IF Len(h) = 0 THEN {1} ELSE {LastStamp(h), LastStamp(h) + 1}

(* init_search_history_table(): CREATE TABLE IF NOT EXISTS *)
init_search_history_table(st0, plan) ==
    LET st == Step(st0, "init_search_history_table")
    IN  IF plan = "connect" THEN [st |-> st, raised |-> TRUE]
        ELSE IF plan = "execute" THEN [st |-> get_connection(st), raised |-> TRUE]
        ELSE [st |-> close(get_connection(st)), raised |-> FALSE]

(* save_search(search_query, matched_title) *)
save_search(st0, search_query, matched_title, plan, ts) ==
    LET st == Step(st0, "save_search")
    IN  IF plan = "connect" THEN [st |-> st, raised |-> TRUE]
        ELSE IF plan = "execute" THEN [st |-> get_connection(st), raised |-> TRUE]
        ELSE [st |-> close([get_connection(st) EXCEPT !.history = Append(@,
                          [id |-> Len(@) + 1, search_query |-> search_query,
                           matched_title |-> matched_title, searched_at |-> ts])]),
              raised |-> FALSE]

(* ORDER BY searched_at DESC: the orders the store can return the rows in. *)
RecentOrders(h) ==
    {p \in Perms(Len(h)) :
        \A i \in 1..(Len(h) - 1) : h[p[i]].searched_at >= h[p[i + 1]].searched_at}

(* get_search_history(limit), with the row order p the store chose *)
get_search_history(st0, limit, plan, p) ==
    LET st == Step(st0, "get_search_history")
    IN  IF plan = "connect" THEN [st |-> st, raised |-> TRUE, rows |-> <<>>]
        ELSE IF plan = "execute"
        THEN [st |-> get_connection(st), raised |-> TRUE, rows |-> <<>>]
        ELSE [st |-> close(get_connection(st)), raised |-> FALSE,
              rows |-> PySliceTo([i \in 1..Len(st.history) |-> st.history[p[i]]], limit)]

CastLists == {<<>>, <<[name |-> "n", role |-> "actor", characters |-> "c"]>>}

(* What the except branch of the enrichment block leaves in the result. *)
EnrichFailedKeepMeta(st, meta) ==
    [st |-> st, originalTitle |-> meta.originalTitle,
     runtimeMinutes |-> meta.runtimeMinutes, cast |-> <<>>]

EnrichFailed(st, meta) ==
    [st |-> st, originalTitle |-> None, runtimeMinutes |-> None, cast |-> <<>>]

(* The enrichment block of search_movie.  hasMeta: the metadata query finds  *)
(* a row; cast: the rows of the cast query.                                  *)
Enrich(st0, plan, hasMeta, cast) ==
    LET st     == Step(st0, "enrich")
        nometa == [originalTitle |-> Absent, runtimeMinutes |-> Absent]
        meta   == IF hasMeta
                  THEN [originalTitle |-> <<"original_title">>,
                        runtimeMinutes |-> <<"runtime_minutes">>]
                  ELSE nometa
        out    == IF plan = "connect" THEN EnrichFailed(st, nometa)
                  ELSE IF plan = "meta" THEN EnrichFailed(get_connection(st), nometa)
                  ELSE IF plan = "cast" THEN EnrichFailed(get_connection(st), meta)
                  ELSE [st |-> close(get_connection(st)),
                        originalTitle |-> meta.originalTitle,
                        runtimeMinutes |-> meta.runtimeMinutes, cast |-> cast]
    IN  [st |-> out.st, plan |-> plan, originalTitle |-> out.originalTitle,
         runtimeMinutes |-> out.runtimeMinutes, cast |-> out.cast]

----------------------------------------------------------------------------
(* The outcome of an operation, as resp holds it.  trace lists the steps the  *)
(* handler ran, in order, and how it ended; idx is the resolved row (0:       *)
(* none); recs the recommendations as [row, similarity]; fuzzy_match the       *)
(* handler's fuzzy_used; result the body search returns.                      *)

NoResult ==
    [row |-> 0, primaryTitle |-> None, numVotes |-> 0, originalTitle |-> Absent,
     runtimeMinutes |-> Absent, cast |-> <<>>, fuzzy_match |-> Absent,
     searched_query |-> Absent]

NoResp ==
    [op |-> "none", title |-> <<>>, n |-> 0, status |-> 0, stage |-> "none",
     idx |-> 0, recs |-> <<>>, matched_title |-> None, fuzzy_match |-> FALSE,
     trace |-> <<>>, save_raised |-> FALSE, enrich_plan |-> "none",
     result |-> NoResult, rows |-> <<>>, limit |-> 0]

----------------------------------------------------------------------------
(* Process start. *)

Missing == [present |-> FALSE, data |-> <<>>]
File(d) == [present |-> TRUE, data |-> d]

(* model/loader.py: the two joblib.load calls at import. *)
Load ==
    /\ proc = "starting"
    /\ IF moviesPkl.present /\ matrixPkl.present
       THEN /\ movies' = moviesPkl.data
            /\ tfidf_matrix' = matrixPkl.data
            /\ proc' = "loaded"
       ELSE /\ proc' = "failed"
            /\ UNCHANGED <<movies, tfidf_matrix>>
    /\ UNCHANGED <<moviesPkl, matrixPkl, history, openConns, inflight, resp>>

(* backend/app.py: startup(), which swallows what the table creation raises. *)
Startup(plan) ==
    /\ proc = "loaded"
    /\ LET r == init_search_history_table(Store, plan)
       IN  /\ r.st.openConns <= MaxOpen
           /\ openConns' = r.st.openConns
    /\ proc' = "serving"
    /\ UNCHANGED <<moviesPkl, matrixPkl, movies, tfidf_matrix, history, inflight, resp>>

----------------------------------------------------------------------------
(* The request handlers of api/routes.py, which the server runs on worker      *)
(* threads: a handler's steps on the store are atomic one by one, and other    *)
(* requests run between them.  Each yields [st, resp]: the store               *)
(* it leaves and its outcome.                                                 *)

(* The process serves, and the last response has gone out. *)
Idle == proc = "serving" /\ resp.op = "none"

(* The response leaves the handler for the caller. *)
Deliver ==
    /\ resp.op # "none"
    /\ resp' = NoResp
    /\ UNCHANGED <<moviesPkl, matrixPkl, proc, movies, tfidf_matrix, history, openConns,
                   inflight>>

(* recommend, from the resolved row idx on; p is the order argsort gives. *)
RecommendRanked(st0, base, m, idx, n, p) ==
    LET st     == Step(st0, "rank")
        scores == SimScores(idx)
        top    == TopIndices(p, n)
    IN  IF \E k \in 1..Len(top) : top[k] > Len(movies)
        THEN [st |-> st,
              resp |-> [base EXCEPT !.status = 500, !.idx = idx,
                                    !.trace = Append(st.log, "raise500")]]
        ELSE [st |-> st,
              resp |-> [base EXCEPT
                 !.status = 200, !.idx = idx,
                 !.recs = [k \in 1..Len(top) |->
                             [row |-> top[k], similarity |-> scores[top[k]]]],
                 !.matched_title = IF m.fuzzy_used THEN m.fuzzy_match ELSE base.title,
                 !.fuzzy_match = m.fuzzy_used,
                 !.trace = Append(st.log, "return")]]

(* recommend, when no stage found a match *)
RecommendUnresolved(st, base) ==
    [st |-> st, resp |-> [base EXCEPT !.status = 404, !.trace = Append(st.log, "raise404")]]

(* recommend(title, n) *)
Recommend(title, n, sc) ==
    /\ Idle
    /\ LET m    == MatchStages(title, sc)
           base == [NoResp EXCEPT !.op = "recommend", !.title = title, !.n = n,
                                  !.stage = m.stage]
       IN  IF m.raised
           THEN resp' = [base EXCEPT !.status = 500, !.trace = <<"raise500">>]
           ELSE IF m.matches = {}
           THEN resp' = RecommendUnresolved(Store, base).resp
           ELSE \E idx \in TopVoted(m.matches) :
                  IF idx > Len(tfidf_matrix)
                  THEN resp' = [base EXCEPT !.status = 500, !.idx = idx,
                                            !.trace = <<"rank", "raise500">>]
                  ELSE \E p \in ArgSorts(SimScores(idx)) :
                         resp' = RecommendRanked(Store, base, m, idx, n, p).resp
    /\ UNCHANGED <<moviesPkl, matrixPkl, proc, movies, tfidf_matrix, history, openConns,
                   inflight>>

(* search_movie, when no stage found a match *)
SearchUnresolved(st0, base, hplan, ts) ==
    LET w == save_search(st0, base.title, None, hplan, ts)
    IN  [st |-> w.st,
         resp |-> [base EXCEPT !.status = 404, !.save_raised = w.raised,
                               !.trace = Append(w.st.log, "raise404")]]

(* search_movie, from the resolved row idx to the end of its history write: *)
(* the store it leaves and the request as it stands, its steps so far in    *)
(* trace.                                                                   *)
SearchSave(st0, base, m, idx, hplan, ts) ==
    LET best_match == movies[idx]
        w == save_search(st0, base.title, best_match.primaryTitle, hplan, ts)
    IN  [st |-> w.st,
         req |-> [base EXCEPT !.idx = idx, !.save_raised = w.raised,
                              !.fuzzy_match = m.fuzzy_used,
                              !.trace = w.st.log]]

(* The body search_movie returns for the request req and the enrichment e: *)
(* the keys fuzzy_match and searched_query are set only after a fuzzy      *)
(* match.                                                                   *)
SearchBody(req, e, st) ==
    [req EXCEPT
        !.status = 200,
        !.enrich_plan = e.plan,
        !.result =
           [row |-> req.idx,
            primaryTitle |-> movies[req.idx].primaryTitle,
            numVotes |-> movies[req.idx].numVotes,
            originalTitle |-> e.originalTitle,
            runtimeMinutes |-> e.runtimeMinutes,
            cast |-> e.cast,
            fuzzy_match |-> IF req.fuzzy_match THEN True ELSE Absent,
            searched_query |-> IF req.fuzzy_match THEN req.title ELSE Absent],
        !.trace = Append(st.log, "return")]

(* search_movie, from the enrichment block to its return, on the store as  *)
(* it is by then.                                                          *)
SearchEnrich(st0, req, eplan, hasMeta, cast) ==
    LET e == Enrich([st0 EXCEPT !.log = req.trace], eplan, hasMeta, cast)
    IN  [st |-> e.st, resp |-> SearchBody(req, e, e.st)]

(* search_movie(title), up to the end of its history write.  A search that *)
(* resolved goes on in SearchFinish; what other requests do to the store   *)
(* in between, and see of it, happens in between.                          *)
Search(title, sc, hplan) ==
    /\ Idle
    /\ LET m    == MatchStages(title, sc)
           base == [NoResp EXCEPT !.op = "search", !.title = title, !.stage = m.stage]
       IN  IF m.raised
           THEN /\ resp' = [base EXCEPT !.status = 500, !.trace = <<"raise500">>]
                /\ UNCHANGED <<history, openConns, inflight>>
           ELSE IF m.matches = {}
           THEN \E ts \in Stamps(history) :
                  LET r == SearchUnresolved(Store, base, hplan, ts)
                  IN  /\ history' = r.st.history
                      /\ openConns' = r.st.openConns
                      /\ resp' = r.resp
                      /\ UNCHANGED inflight
           ELSE \E idx \in TopVoted(m.matches), ts \in Stamps(history) :
                  LET r == SearchSave(Store, base, m, idx, hplan, ts)
                  IN  /\ Len(inflight) < MaxInFlight
                      /\ history' = r.st.history
                      /\ openConns' = r.st.openConns
                      /\ inflight' = Append(inflight, r.req)
                      /\ UNCHANGED resp
    /\ Len(history') <= MaxHistory
    /\ openConns' <= MaxOpen
    /\ UNCHANGED <<moviesPkl, matrixPkl, proc, movies, tfidf_matrix>>

(* search_movie, the k-th search in flight: enrichment and return. *)
SearchFinish(k, eplan, hasMeta, cast) ==
    /\ Idle
    /\ k \in 1..Len(inflight)
    /\ LET r == SearchEnrich(Store, inflight[k], eplan, hasMeta, cast)
       IN  /\ openConns' = r.st.openConns
           /\ resp' = r.resp
    /\ inflight' = SubSeq(inflight, 1, k - 1) \o SubSeq(inflight, k + 1, Len(inflight))
    /\ openConns' <= MaxOpen
    /\ UNCHANGED <<moviesPkl, matrixPkl, proc, movies, tfidf_matrix, history>>

(* search_history(limit): limit is validated to LimitMin..LimitMax first. *)
History(limit, plan) ==
    /\ Idle
    /\ IF limit < LimitMin \/ limit > LimitMax
       THEN /\ resp' = [NoResp EXCEPT !.op = "history", !.limit = limit, !.status = 422,
                                      !.trace = <<"raise422">>]
            /\ UNCHANGED openConns
       ELSE \E p \in RecentOrders(history) :
              LET r == get_search_history(Store, limit, plan, p)
              IN  /\ openConns' = r.st.openConns
                  /\ resp' = [NoResp EXCEPT !.op = "history", !.limit = limit,
                                 !.status = IF r.raised THEN 500 ELSE 200,
                                 !.rows = r.rows,
                                 !.trace = Append(r.st.log,
                                              IF r.raised THEN "raise500" ELSE "return")]
    /\ openConns' <= MaxOpen
    /\ UNCHANGED <<moviesPkl, matrixPkl, proc, movies, tfidf_matrix, history, inflight>>

----------------------------------------------------------------------------
(* Specifications. *)

InitCommon ==
    /\ proc = "starting"
    /\ movies = <<>>
    /\ tfidf_matrix = <<>>
    /\ history = <<>>
    /\ openConns = 0
    /\ inflight = <<>>
    /\ resp = NoResp

(* The whole service, on a one-entry catalog and a matrix of one row less, *)
(* as many, or one more, either of which may be missing.                   *)
SysEntries == [primaryTitle : SysTitles, numVotes : {100}]
SysRows == {<<1, 1>>}

Init ==
    /\ \E d \in {<<e>> : e \in SysEntries} :
          /\ moviesPkl \in {Missing, File(d)}
          /\ matrixPkl \in {Missing} \cup
                {File(r) : r \in SeqsUpTo(SysRows, Len(d) - 1, Len(d) + 1)}
    /\ InitCommon

(* What the store holds for the resolved title matters only when the        *)
(* metadata query, or the cast query, runs.                                  *)
MetaRows(eplan) == IF eplan \in {"ok", "cast"} THEN BOOLEAN ELSE {FALSE}
CastRows(eplan) == IF eplan = "ok" THEN CastLists ELSE {<<>>}

Ns == 0..(Len(movies) + 1)
Limits == {LimitMin - 1, LimitMin, LimitMax, LimitMax + 1}

Next ==
    \/ Load
    \/ \E plan \in ConnPlans : Startup(plan)
    \/ \E title \in SysQueries, n \in Ns : \E sc \in Scorers(title) : Recommend(title, n, sc)
    \/ \E title \in SysQueries, hplan \in ConnPlans :
          \E sc \in Scorers(title) : Search(title, sc, hplan)
    \/ \E k \in 1..MaxInFlight, eplan \in EnrichPlans :
          \E hasMeta \in MetaRows(eplan), cast \in CastRows(eplan) :
             SearchFinish(k, eplan, hasMeta, cast)
    \/ \E limit \in Limits, plan \in ConnPlans : History(limit, plan)
    \/ Deliver

Spec == Init /\ [][Next]_vars

(* Resolution and ranking on every aligned artifact, the store unreachable, *)
(* one request at a time.                                                   *)
ResolveInit ==
    /\ \E d \in SeqsUpTo(Entries, 1, MaxCatalog) :
          /\ moviesPkl = File(d)
          /\ matrixPkl \in {File(r) : r \in [1..Len(d) -> Rows]}
    /\ InitCommon

ResolveNext ==
    \/ Load
    \/ Startup("connect")
    \/ /\ inflight = <<>>
       /\ \E title \in Queries, n \in Ns : \E sc \in Scorers(title) : Recommend(title, n, sc)
    \/ /\ inflight = <<>>
       /\ \E title \in Queries : \E sc \in Scorers(title) : Search(title, sc, "connect")
    \/ \E k \in 1..MaxInFlight : SearchFinish(k, "connect", FALSE, <<>>)
    \/ Deliver

ResolveSpec == ResolveInit /\ [][ResolveNext]_vars

----------------------------------------------------------------------------
(* Properties. *)

IsRequest == resp.op \in {"recommend", "search"}

(* C1: the list recommend returns never contains the query entry itself,    *)
(* for every n >= 1.                                                        *)
C1_SelfExcluded ==
    (resp.op = "recommend" /\ resp.status = 200 /\ resp.n >= 1) =>
        \A k \in 1..Len(resp.recs) : resp.recs[k].row # resp.idx

(* C2: recommend returns min(n, catalogSize - 1) recommendations, for every *)
(* n >= 0.                                                                  *)
C2_Count ==
    (resp.op = "recommend" /\ resp.status = 200) =>
        Len(resp.recs) = Min2(resp.n, Len(movies) - 1)

(* C3: recommend and search both attempt the history write, with the query  *)
(* and a null matched title, before they signal not-found.                  *)
C3_BothRecordNotFound ==
    (IsRequest /\ resp.status = 404) => resp.trace = <<"save_search", "raise404">>

(* C4: a request that resolves runs its one downstream step, then the      *)
(* history write, and only then returns.                                    *)
C4_HistoryAfterDownstream ==
    (IsRequest /\ resp.status = 200) =>
        resp.trace = <<IF resp.op = "search" THEN "enrich" ELSE "rank",
                       "save_search", "return">>

(* C5: resolution takes the first of exact, substring, fuzzy whose          *)
(* candidate set is not empty, and the request ends not-found exactly when  *)
(* no stage has an acceptable candidate: so every request ends resolved or  *)
(* not-found, by the stage the query's containment in the titles decides.   *)
C5_StageOrder ==
    IsRequest =>
        LET exact == {i \in 1..Len(movies) : Lower(movies[i].primaryTitle) = Lower(resp.title)}
            sub   == {i \in 1..Len(movies) : Contains(movies[i].primaryTitle, resp.title)}
        IN  /\ resp.status \in {200, 404}
            /\ exact # {} => resp.stage = "exact"
            /\ (exact = {} /\ sub # {}) => resp.stage = "substring"
            /\ resp.stage \in {"fuzzy", "none"} <=> (exact = {} /\ sub = {})
            /\ resp.status = 404 <=> resp.stage = "none"

(* The candidates of the stage that resolved the last request. *)
Candidates ==
    IF resp.stage = "exact" THEN ExactMatches(resp.title)
    ELSE IF resp.stage = "substring" THEN ContainsMatches(resp.title)
    ELSE ExactMatches(movies[resp.idx].primaryTitle)

(* C6: the resolved entry is a candidate of the winning stage with the      *)
(* highest vote count among them.                                           *)
C6_MostVoted ==
    (IsRequest /\ resp.idx # 0) =>
        /\ resp.idx \in Candidates
        /\ \A j \in Candidates : movies[j].numVotes <= movies[resp.idx].numVotes

C6_Witness ==
    /\ resp.op = "search" /\ resp.stage = "exact" /\ resp.idx = 2
    /\ movies[1].primaryTitle = movies[2].primaryTitle
    /\ movies[1].numVotes = 100 /\ movies[2].numVotes = 5000

(* C7: a search that resolves returns 200 with the resolved entry's catalog *)
(* fields whatever store step fails, and when an enrichment step fails      *)
(* originalTitle and runtimeMinutes are null and cast is empty.             *)
C7_SearchDegrades ==
    (resp.op = "search" /\ resp.idx # 0) =>
        /\ resp.status = 200
        /\ resp.result.row = resp.idx
        /\ resp.result.primaryTitle = movies[resp.idx].primaryTitle
        /\ resp.result.numVotes = movies[resp.idx].numVotes
        /\ resp.enrich_plan # "ok" =>
              /\ resp.result.originalTitle = None
              /\ resp.result.runtimeMinutes = None
              /\ resp.result.cast = <<>>

C7_Witness ==
    /\ resp.op = "search" /\ resp.status = 200
    /\ resp.save_raised /\ resp.enrich_plan = "cast"
    /\ resp.result.originalTitle = None /\ resp.result.cast = <<>>

(* C8: fetchRecent(1) after a successful record returns that record, the    *)
(* last one written, also when an earlier record has the same timestamp.    *)
C8_LastWrittenFirst ==
    (resp.op = "history" /\ resp.status = 200 /\ resp.limit = 1 /\ Len(history) >= 1) =>
        resp.rows = <<history[Len(history)]>>

(* C9: loading fails when an artifact file is missing or the entry count    *)
(* differs from the matrix row count; nothing is served from a misaligned   *)
(* catalog.                                                                 *)
C9_FailFast ==
    /\ (~moviesPkl.present \/ ~matrixPkl.present \/ Len(moviesPkl.data) # Len(matrixPkl.data))
          => proc \in {"starting", "failed"}
    /\ resp.status = 200 => Len(movies) = Len(tfidf_matrix)

(* C10: every connection an operation opened is closed when the operation   *)
(* has returned or raised.                                                  *)
C10_Released == openConns = 0

(* C11: when recommend resolves the query, by whichever stage, the          *)
(* matched_title of its response is the primary title of the entry whose    *)
(* feature row was ranked, the title search writes to the history for the   *)
(* same resolved entry.                                                     *)
C11_MatchedTitleIsRanked ==
    (resp.op = "recommend" /\ resp.status = 200) =>
        resp.matched_title = movies[resp.idx].primaryTitle

====
